---- MODULE Spec2Model ----
(***************************************************************************)
(* State-machine model of sample_code.py: UserManager (an in-memory        *)
(* account list in front of a cache and a database collaborator) and       *)
(* DataProcessor (the clean -> transform -> validate -> enrich pipeline).  *)
(* The two components share no state; Spec runs the UserManager and        *)
(* SpecDP runs the DataProcessor.                                          *)
(***************************************************************************)
EXTENDS Integers, Sequences, FiniteSets, TLC

VARIABLES
    users,            \* UserManager.users: the in-memory list of User objects
    cache,            \* the cache collaborator: key -> [val, ex]
    db,               \* the database collaborator: the set of stored users
    nextId,           \* the id the next User object gets
    nextToken,        \* the number of the next uuid4 drawn
    ret,              \* the last step: the call, its arguments, result, and the list
                      \* updates and collaborator calls it made, in order
    data,             \* the caller's batch handed to DataProcessor.process
    processed_count,  \* DataProcessor.processed_count
    now,              \* the clock read by get_timestamp
    out               \* the last process call: its outcome and returned list

umVars == <<users, cache, db, nextId, nextToken, ret>>
dpVars == <<data, processed_count, now, out>>
vars == <<users, cache, db, nextId, nextToken, ret, data, processed_count, now, out>>

----------------------------------------------------------------------------
\* Bounds of the model.

\* How many User objects are ever constructed.
MaxIds == 2
\* How many session tokens are ever minted.
MaxTokens == 2

\* The longest batch handed to process.
MaxBatch == 3
\* process is called while processed_count is below this cap.
MaxCount == 3
\* Inputs of the UserManager calls.  Two emails differ only in case.
Emails == {"john@example.com", "John@example.com"}
UserNames == {"John Doe"}
Passwords == {"securepass123", "strongpass456"}
\* The salts bcrypt.gensalt() may draw; the manager never reads the salt.
Salts == {"s1"}
\* The ids remove_user may be called with: every id a User can get and one
\* that no User ever gets.
UserIds == 1..(MaxIds + 1)

----------------------------------------------------------------------------
\* UserManager

\* self.session_timeout
session_timeout == 3600

\* Python's None where a User is expected, and where a token is expected.
None == [id |-> 0, name |-> "", email |-> "",
         password_hash |-> [salt |-> "", pw |-> ""]]
NoToken == "None"

\* User(name, email, hashed_password): the object has the attributes the
\* manager reads (id, email, password_hash); ids are unique per object.
User(id, name, email, hashed_password) ==
    [id |-> id, name |-> name, email |-> email, password_hash |-> hashed_password]

\* bcrypt.hashpw(password, gensalt()): a salted digest of the password.
hash_password(password, salt) == [salt |-> salt, pw |-> password]

\* bcrypt.checkpw(password, hash)
verify_password(password, hash) == hash.pw = password

\* The cache collaborator: set(key, value, ex=...), delete(key).
CacheSet(c, key, value, ex) ==
    [k \in DOMAIN c \cup {key} |->
        IF k = key THEN [val |-> value, ex |-> ex] ELSE c[k]]
CacheDelete(c, key) == [k \in DOMAIN c \ {key} |-> c[k]]

\* The database collaborator.
insert_user(d, user) == d \cup {user}
delete_user(d, user_id) == {u \in d : u.id # user_id}
\* query_user_by_email: a stored user with that email, or None.
query_user_by_email(d, email) ==
    LET found == {u \in d : u.email = email}
    IN  IF found = {} THEN {None} ELSE found

\* The cache keys the manager formats.
UserKey(email) == "user:" \o email
SessionKey(token) == "session:" \o token
UserSessionsKey(user_id) == "user_sessions:" \o ToString(user_id)

\* str(uuid.uuid4()) for the n-th uuid drawn.
Uuid4Str(n) == "uuid-" \o ToString(n)

\* What a call leaves in ret.
Ret(op, email, password, id, status, user, success, token, calls) ==
    [op |-> op, email |-> email, password |-> password, id |-> id,
     status |-> status, user |-> user, success |-> success, token |-> token,
     calls |-> calls]

email_exists_never(email) == FALSE

\* UserManager.email_exists
email_exists(email) ==
    \E i \in 1..Len(users) : users[i].email = email

AddUser_NoPersist(name, email, password) ==
    IF email_exists(email)
    THEN /\ ret' = Ret("add_user", email, password, 0, "ValueError", None,
                       FALSE, NoToken, <<>>)
         /\ UNCHANGED <<users, cache, db, nextId, nextToken>>
    ELSE /\ nextId <= MaxIds
         /\ \E salt \in Salts :
              LET user == User(nextId, name, email, hash_password(password, salt))
              IN  /\ users' = Append(users, user)
                  /\ cache' = CacheSet(cache, UserKey(email), user, session_timeout)
                  /\ db' = db
                  /\ nextId' = nextId + 1
                  /\ ret' = Ret("add_user", email, password, user.id, "ok", user,
                                TRUE, NoToken, <<"users.append", "cache.set">>)
         /\ UNCHANGED nextToken

\* UserManager.add_user
AddUser(name, email, password) ==
    IF email_exists(email)
    THEN /\ ret' = Ret("add_user", email, password, 0, "ValueError", None,
                       FALSE, NoToken, <<>>)
         /\ UNCHANGED <<users, cache, db, nextId, nextToken>>
    ELSE /\ nextId <= MaxIds
         /\ \E salt \in Salts :
              LET user == User(nextId, name, email, hash_password(password, salt))
              IN  /\ users' = Append(users, user)
                  /\ cache' = CacheSet(cache, UserKey(email), user, session_timeout)
                  /\ db' = insert_user(db, user)
                  /\ nextId' = nextId + 1
                  /\ ret' = Ret("add_user", email, password, user.id, "ok", user,
                                TRUE, NoToken,
                                <<"users.append", "cache.set", "db.insert_user">>)
         /\ UNCHANGED nextToken

get_user_by_email_no_cache(c, d, email) ==
    {[user |-> u, cache |-> c,
      calls |-> <<"cache.get", "db.query_user_by_email">>]
        : u \in query_user_by_email(d, email)}

\* UserManager.get_user_by_email on cache c and database d: the possible
\* outcomes, each the user returned, the cache afterwards and the
\* collaborator calls made.
get_user_by_email(c, d, email) ==
    IF UserKey(email) \in DOMAIN c
    THEN {[user |-> c[UserKey(email)].val, cache |-> c, calls |-> <<"cache.get">>]}
    ELSE {[user |-> u,
           cache |-> IF u # None
                     THEN CacheSet(c, UserKey(email), u, session_timeout)
                     ELSE c,
           calls |-> IF u # None
                     THEN <<"cache.get", "db.query_user_by_email", "cache.set">>
                     ELSE <<"cache.get", "db.query_user_by_email">>]
            : u \in query_user_by_email(d, email)}

\* A call of get_user_by_email by the manager's client.
GetUserByEmail(email) ==
    \E r \in get_user_by_email(cache, db, email) :
        /\ cache' = r.cache
        /\ ret' = Ret("get_user_by_email", email, "", 0, "ok", r.user,
                      r.user # None, NoToken, r.calls)
        /\ UNCHANGED <<users, db, nextId, nextToken>>

create_session_same_token(c, user, n) ==
    [token |-> Uuid4Str(1),
     cache |-> CacheSet(c, SessionKey(Uuid4Str(1)), user.id, session_timeout)]

\* UserManager.create_session: the token and the cache afterwards.
create_session(c, user, n) ==
    [token |-> Uuid4Str(n),
     cache |-> CacheSet(c, SessionKey(Uuid4Str(n)), user.id, session_timeout)]

Authenticate_NoVerify(email, password) ==
    \E r \in get_user_by_email(cache, db, email) :
        IF r.user = None
        THEN /\ cache' = r.cache
             /\ ret' = Ret("authenticate", email, password, 0, "ok", None,
                           FALSE, NoToken, r.calls)
             /\ UNCHANGED <<users, db, nextId, nextToken>>
        ELSE /\ nextToken <= MaxTokens
             /\ LET s == create_session(r.cache, r.user, nextToken)
                IN  /\ cache' = s.cache
                    /\ ret' = Ret("authenticate", email, password, r.user.id,
                                  "ok", r.user, TRUE, s.token,
                                  r.calls \o <<"cache.set">>)
             /\ nextToken' = nextToken + 1
             /\ UNCHANGED <<users, db, nextId>>

\* UserManager.authenticate
Authenticate(email, password) ==
    \E r \in get_user_by_email(cache, db, email) :
        IF r.user = None
        THEN /\ cache' = r.cache
             /\ ret' = Ret("authenticate", email, password, 0, "ok", None,
                           FALSE, NoToken, r.calls)
             /\ UNCHANGED <<users, db, nextId, nextToken>>
        ELSE IF verify_password(password, r.user.password_hash)
        THEN /\ nextToken <= MaxTokens
             /\ LET s == create_session(r.cache, r.user, nextToken)
                IN  /\ cache' = s.cache
                    /\ ret' = Ret("authenticate", email, password, r.user.id,
                                  "ok", r.user, TRUE, s.token,
                                  r.calls \o <<"cache.set">>)
             /\ nextToken' = nextToken + 1
             /\ UNCHANGED <<users, db, nextId>>
        ELSE /\ cache' = r.cache
             /\ ret' = Ret("authenticate", email, password, r.user.id, "ok",
                           r.user, FALSE, NoToken, r.calls)
             /\ UNCHANGED <<users, db, nextId, nextToken>>

RemoveUser_ReportFound(user_id) ==
    /\ users' = SelectSeq(users, LAMBDA u : u.id # user_id)
    /\ cache' = CacheDelete(cache, UserSessionsKey(user_id))
    /\ db' = delete_user(db, user_id)
    /\ ret' = Ret("remove_user", "", "", user_id, "ok", None,
                  \E i \in 1..Len(users) : users[i].id = user_id, NoToken,
                  <<"users.assign", "cache.delete", "db.delete_user">>)
    /\ UNCHANGED <<nextId, nextToken>>

RemoveUser_KeepRecord(user_id) ==
    /\ users' = SelectSeq(users, LAMBDA u : u.id # user_id)
    /\ cache' = CacheDelete(cache, UserSessionsKey(user_id))
    /\ db' = db
    /\ ret' = Ret("remove_user", "", "", user_id, "ok", None, TRUE, NoToken,
                  <<"users.assign", "cache.delete", "db.delete_user">>)
    /\ UNCHANGED <<nextId, nextToken>>

\* UserManager.remove_user
RemoveUser(user_id) ==
    /\ users' = SelectSeq(users, LAMBDA u : u.id # user_id)
    /\ cache' = CacheDelete(cache, UserSessionsKey(user_id))
    /\ db' = delete_user(db, user_id)
    /\ ret' = Ret("remove_user", "", "", user_id, "ok", None, TRUE, NoToken,
                  <<"users.assign", "cache.delete", "db.delete_user">>)
    /\ UNCHANGED <<nextId, nextToken>>

\* The cache collaborator drops an entry whose expiry has passed.
CacheExpire(key) ==
    /\ key \in DOMAIN cache
    /\ cache' = CacheDelete(cache, key)
    /\ ret' = Ret("cache.expire", "", "", 0, "ok", None, FALSE, NoToken, <<>>)
    /\ UNCHANGED <<users, db, nextId, nextToken>>

----------------------------------------------------------------------------
\* DataProcessor

\* Field values of the input records.  An id is a number or None, a name is
\* a str (its characters) or None; a record may lack any field.
\* Python's None as the value of id, which record.get('id') also returns for
\* a record without id.
NoneId == 0
RecordIds == {1, NoneId}
Str(chars) == [t |-> "str", v |-> chars]
NoneValue == [t |-> "None", v |-> <<>>]
NameValues == {Str(<<" ", " ", "B", "o", "b", " ", " ">>), NoneValue}
EmailValues == {"b@x.com"}
\* The instants the clock passes through.
Instants == {1, 2}

\* The dict holding, of id, name and email, the given fields.
MkRecord(fields, id, name, email) ==
    [k \in fields |->
        CASE k = "id" -> id
          [] k = "name" -> name
          [] k = "email" -> email]
Records ==
    {MkRecord(fields, id, name, email) :
        fields \in SUBSET {"id", "name", "email"},
        id \in RecordIds, name \in NameValues, email \in EmailValues}
Batches == UNION {[1..n -> Records] : n \in 0..MaxBatch}

\* record.get(field, default) on a dict.
get(record, field, default) ==
    IF field \in DOMAIN record THEN record[field] ELSE default

\* record[field] = value on a dict.
SetField(record, field, value) ==
    [k \in DOMAIN record \cup {field} |-> IF k = field THEN value ELSE record[k]]

\* str.strip() and str.lower() on the characters of a str.
IsSpace(c) == c \in {" ", "\t", "\n", "\r"}
UpperCase == <<"A", "B", "C", "D", "E", "F", "G", "H", "I", "J", "K", "L", "M",
               "N", "O", "P", "Q", "R", "S", "T", "U", "V", "W", "X", "Y", "Z">>
LowerCase == <<"a", "b", "c", "d", "e", "f", "g", "h", "i", "j", "k", "l", "m",
               "n", "o", "p", "q", "r", "s", "t", "u", "v", "w", "x", "y", "z">>
LowerChar(c) ==
    IF \E i \in 1..Len(UpperCase) : UpperCase[i] = c
    THEN LowerCase[CHOOSE i \in 1..Len(UpperCase) : UpperCase[i] = c]
    ELSE c
RECURSIVE lstrip(_)
lstrip(s) == IF s # <<>> /\ IsSpace(Head(s)) THEN lstrip(Tail(s)) ELSE s
RECURSIVE rstrip(_)
rstrip(s) ==
    IF s # <<>> /\ IsSpace(s[Len(s)]) THEN rstrip(SubSeq(s, 1, Len(s) - 1)) ELSE s
strip_left_only(s) == lstrip(s)
strip(s) == rstrip(lstrip(s))
lower(s) == [i \in 1..Len(s) |-> LowerChar(s[i])]

\* DataProcessor.get_timestamp: datetime.now().isoformat() at instant t.
get_timestamp(t) == "T" \o ToString(t)
\* The instants n successive clock reads may return, from instant t0 on.
ClockReads(n, t0) ==
    {s \in [1..n -> {t \in Instants : t >= t0}] :
        \A i \in 1..(n - 1) : s[i] <= s[i + 1]}

\* DataProcessor.fetch_metadata
fetch_metadata(record_id) == [source |-> "api", version |-> "1.0"]

is_valid_record_any(record) ==
    \E field \in {"id", "name", "email"} : field \in DOMAIN record

\* DataProcessor.is_valid_record
is_valid_record(record) ==
    \A field \in {"id", "name", "email"} : field \in DOMAIN record

RECURSIVE CleanFrom_DropWithoutId(_, _, _, _)
CleanFrom_DropWithoutId(d, i, seen_ids, cleaned) ==
    IF i > Len(d)
    THEN [ok |-> TRUE, cleaned |-> cleaned]
    ELSE IF "id" \notin DOMAIN d[i] \/ d[i]["id"] \in seen_ids
    THEN CleanFrom_DropWithoutId(d, i + 1, seen_ids, cleaned)
    ELSE CleanFrom_DropWithoutId(d, i + 1, seen_ids \cup {d[i]["id"]},
                                 Append(cleaned, i))

RECURSIVE CleanFrom_SeenIfValid(_, _, _, _)
CleanFrom_SeenIfValid(d, i, seen_ids, cleaned) ==
    IF i > Len(d)
    THEN [ok |-> TRUE, cleaned |-> cleaned]
    ELSE IF DOMAIN d[i] = {} \/ get(d[i], "id", NoneId) \in seen_ids
    THEN CleanFrom_SeenIfValid(d, i + 1, seen_ids, cleaned)
    ELSE IF "id" \notin DOMAIN d[i]
    THEN [ok |-> FALSE, cleaned |-> cleaned]
    ELSE CleanFrom_SeenIfValid(
            d, i + 1,
            IF is_valid_record(d[i]) THEN seen_ids \cup {d[i]["id"]} ELSE seen_ids,
            Append(cleaned, i))

\* The loop of clean_data from position i on, with the ids seen and the
\* positions kept so far.  A non-empty record without 'id' raises KeyError
\* at record['id'].
RECURSIVE CleanFrom(_, _, _, _)
CleanFrom(d, i, seen_ids, cleaned) ==
    IF i > Len(d)
    THEN [ok |-> TRUE, cleaned |-> cleaned]
    ELSE IF DOMAIN d[i] = {} \/ get(d[i], "id", NoneId) \in seen_ids
    THEN CleanFrom(d, i + 1, seen_ids, cleaned)
    ELSE IF "id" \notin DOMAIN d[i]
    THEN [ok |-> FALSE, cleaned |-> cleaned]
    ELSE CleanFrom(d, i + 1, seen_ids \cup {d[i]["id"]}, Append(cleaned, i))

clean_data_keep_all(d) ==
    [ok |-> \A i \in 1..Len(d) : DOMAIN d[i] = {} \/ "id" \in DOMAIN d[i],
     cleaned |-> SelectSeq([i \in 1..Len(d) |-> i], LAMBDA i : DOMAIN d[i] # {})]

\* DataProcessor.clean_data on the batch d: the positions of d whose records
\* the returned list holds, in order.
clean_data(d) == CleanFrom(d, 1, {}, <<>>)

\* The loop of transform from the k-th record of the list on.  The records
\* are changed in place: d is the batch with the changes made so far.
\* None.strip() raises AttributeError after processed_at is set.
RECURSIVE TransformFrom(_, _, _, _)
TransformFrom(d, list, k, ts) ==
    IF k > Len(list)
    THEN [ok |-> TRUE, d |-> d, at |-> Len(list)]
    ELSE LET p == list[k]
             stamped == SetField(d[p], "processed_at", get_timestamp(ts[k]))
             name == get(stamped, "name", Str(<<>>))
         IN  IF name.t # "str"
             THEN [ok |-> FALSE, d |-> [d EXCEPT ![p] = stamped], at |-> k]
             ELSE TransformFrom(
                    [d EXCEPT ![p] = SetField(stamped, "normalized_name",
                                              Str(lower(strip(name.v))))],
                    list, k + 1, ts)

\* DataProcessor.transform on the records at the positions of list, with the
\* clock reads ts.
transform(d, list, ts) == TransformFrom(d, list, 1, ts)

\* DataProcessor.validate
validate(d, list) == SelectSeq(list, LAMBDA p : is_valid_record(d[p]))

\* DataProcessor.enrich: changes the records of the list in place.
enrich(d, list) ==
    [p \in 1..Len(d) |->
        IF \E k \in 1..Len(list) : list[k] = p
        THEN SetField(SetField(d[p], "enriched", TRUE),
                      "metadata", fetch_metadata(d[p]["id"]))
        ELSE d[p]]

\* What a process call leaves in out: how it ended, the positions clean_data
\* kept, the positions of the returned records and the returned records;
\* stages lists the stages the call entered, in order.
Out(status, stages, cleaned, refs, result) ==
    [status |-> status, stages |-> stages, cleaned |-> cleaned, refs |-> refs,
     result |-> result]

Process_CountCleaned ==
    /\ processed_count < MaxCount
    /\ LET c == clean_data(data)
       IN  IF ~c.ok
           THEN /\ out' = Out("KeyError", <<"clean_data">>, <<>>, <<>>, <<>>)
                /\ UNCHANGED <<data, processed_count, now>>
           ELSE \E ts \in ClockReads(Len(c.cleaned), now) :
                  LET t == transform(data, c.cleaned, ts)
                  IN  IF ~t.ok
                      THEN /\ data' = t.d
                           /\ now' = ts[t.at]
                           /\ out' = Out("AttributeError", <<"clean_data", "transform">>,
                                         c.cleaned, <<>>, <<>>)
                           /\ UNCHANGED processed_count
                      ELSE LET validated == validate(t.d, c.cleaned)
                               enriched == enrich(t.d, validated)
                           IN  /\ data' = enriched
                               /\ now' = IF ts = <<>> THEN now ELSE ts[Len(ts)]
                               /\ processed_count' = processed_count + Len(c.cleaned)
                               /\ out' = Out("ok",
                                             <<"clean_data", "transform",
                                               "validate", "enrich">>,
                                             c.cleaned, validated,
                                             [k \in 1..Len(validated) |->
                                                 enriched[validated[k]]])

Process_CountBeforeFailure ==
    /\ processed_count < MaxCount
    /\ LET c == clean_data(data)
       IN  IF ~c.ok
           THEN /\ out' = Out("KeyError", <<"clean_data">>, <<>>, <<>>, <<>>)
                /\ UNCHANGED <<data, processed_count, now>>
           ELSE \E ts \in ClockReads(Len(c.cleaned), now) :
                  LET t == transform(data, c.cleaned, ts)
                  IN  IF ~t.ok
                      THEN /\ data' = t.d
                           /\ now' = ts[t.at]
                           /\ out' = Out("AttributeError", <<"clean_data", "transform">>,
                                         c.cleaned, <<>>, <<>>)
                           /\ processed_count' = processed_count + (t.at - 1)
                      ELSE LET validated == validate(t.d, c.cleaned)
                               enriched == enrich(t.d, validated)
                           IN  /\ data' = enriched
                               /\ now' = IF ts = <<>> THEN now ELSE ts[Len(ts)]
                               /\ processed_count' = processed_count + Len(validated)
                               /\ out' = Out("ok",
                                             <<"clean_data", "transform",
                                               "validate", "enrich">>,
                                             c.cleaned, validated,
                                             [k \in 1..Len(validated) |->
                                                 enriched[validated[k]]])

\* DataProcessor.process on the caller's batch.
Process ==
    /\ processed_count < MaxCount
    /\ LET c == clean_data(data)
       IN  IF ~c.ok
           THEN /\ out' = Out("KeyError", <<"clean_data">>, <<>>, <<>>, <<>>)
                /\ UNCHANGED <<data, processed_count, now>>
           ELSE \E ts \in ClockReads(Len(c.cleaned), now) :
                  LET t == transform(data, c.cleaned, ts)
                  IN  IF ~t.ok
                      THEN /\ data' = t.d
                           /\ now' = ts[t.at]
                           /\ out' = Out("AttributeError", <<"clean_data", "transform">>,
                                         c.cleaned, <<>>, <<>>)
                           /\ UNCHANGED processed_count
                      ELSE LET validated == validate(t.d, c.cleaned)
                               enriched == enrich(t.d, validated)
                           IN  /\ data' = enriched
                               /\ now' = IF ts = <<>> THEN now ELSE ts[Len(ts)]
                               /\ processed_count' = processed_count + Len(validated)
                               /\ out' = Out("ok",
                                             <<"clean_data", "transform",
                                               "validate", "enrich">>,
                                             c.cleaned, validated,
                                             [k \in 1..Len(validated) |->
                                                 enriched[validated[k]]])

\* UserManager.__init__ with an empty cache and an empty database.
UMInit ==
    /\ users = <<>>
    /\ cache = <<>>
    /\ db = {}
    /\ nextId = 1
    /\ nextToken = 1
    /\ ret = Ret("init", "", "", 0, "ok", None, FALSE, NoToken, <<>>)

\* DataProcessor.__init__ before any batch is handed over.
DPIdle ==
    /\ data = <<>>
    /\ processed_count = 0
    /\ now = 1
    /\ out = Out("init", <<>>, <<>>, <<>>, <<>>)

Init == UMInit /\ DPIdle

Next ==
    \/ \E name \in UserNames, email \in Emails, password \in Passwords :
          AddUser(name, email, password) /\ UNCHANGED dpVars
    \/ \E email \in Emails, password \in Passwords :
          Authenticate(email, password) /\ UNCHANGED dpVars
    \/ \E user_id \in UserIds : RemoveUser(user_id) /\ UNCHANGED dpVars
    \/ \E email \in Emails : GetUserByEmail(email) /\ UNCHANGED dpVars
    \/ \E key \in DOMAIN cache : CacheExpire(key) /\ UNCHANGED dpVars

Spec == Init /\ [][Next]_vars

----------------------------------------------------------------------------
\* UserManager with collaborators that may raise.  No handler catches: the
\* exception leaves the call where it was raised, with the assignments made
\* before it in place.  A call that raises has had no effect on its
\* collaborator.

AddUserRaises_DatabaseFirst(name, email, password, at) ==
    /\ ~email_exists(email)
    /\ nextId <= MaxIds
    /\ \E salt \in Salts :
         LET user == User(nextId, name, email, hash_password(password, salt))
         IN  /\ users' = Append(users, user)
             /\ db' = IF at = "cache.set" THEN insert_user(db, user) ELSE db
             /\ cache' = cache
             /\ nextId' = nextId + 1
             /\ ret' = Ret("add_user", email, password, user.id,
                           "CollaboratorError", None, FALSE, NoToken,
                           IF at = "db.insert_user"
                           THEN <<"users.append", "db.insert_user">>
                           ELSE <<"users.append", "db.insert_user", "cache.set">>)
    /\ UNCHANGED nextToken

AddUserRaises_RollBack(name, email, password, at) ==
    /\ ~email_exists(email)
    /\ nextId <= MaxIds
    /\ users' = users
    /\ cache' = cache
    /\ db' = db
    /\ nextId' = nextId + 1
    /\ ret' = Ret("add_user", email, password, nextId, "CollaboratorError",
                  None, FALSE, NoToken,
                  IF at = "cache.set"
                  THEN <<"users.append", "cache.set">>
                  ELSE <<"users.append", "cache.set", "db.insert_user">>)
    /\ UNCHANGED nextToken

\* UserManager.add_user when the collaborator call at (cache.set or
\* db.insert_user) raises.
AddUserRaises(name, email, password, at) ==
    /\ ~email_exists(email)
    /\ nextId <= MaxIds
    /\ \E salt \in Salts :
         LET user == User(nextId, name, email, hash_password(password, salt))
         IN  /\ users' = Append(users, user)
             /\ cache' = IF at = "cache.set"
                         THEN cache
                         ELSE CacheSet(cache, UserKey(email), user, session_timeout)
             /\ db' = db
             /\ nextId' = nextId + 1
             /\ ret' = Ret("add_user", email, password, user.id,
                           "CollaboratorError", None, FALSE, NoToken,
                           IF at = "cache.set"
                           THEN <<"users.append", "cache.set">>
                           ELSE <<"users.append", "cache.set", "db.insert_user">>)
    /\ UNCHANGED nextToken

\* UserManager.remove_user when the collaborator call at (cache.delete or
\* db.delete_user) raises.
RemoveUserRaises(user_id, at) ==
    /\ users' = SelectSeq(users, LAMBDA u : u.id # user_id)
    /\ cache' = IF at = "cache.delete"
                THEN cache
                ELSE CacheDelete(cache, UserSessionsKey(user_id))
    /\ db' = db
    /\ ret' = Ret("remove_user", "", "", user_id, "CollaboratorError", None,
                  FALSE, NoToken,
                  IF at = "cache.delete"
                  THEN <<"users.assign", "cache.delete">>
                  ELSE <<"users.assign", "cache.delete", "db.delete_user">>)
    /\ UNCHANGED <<nextId, nextToken>>

\* The collaborator calls of add_user and of remove_user that may raise.
AddUserCalls == {"cache.set", "db.insert_user"}
RemoveUserCalls == {"cache.delete", "db.delete_user"}

\* add_user, remove_user and get_user_by_email with collaborators that may
\* raise in the two calls that write.  authenticate writes neither the list
\* nor the database and is left to Spec.
NextRaises ==
    \/ \E name \in UserNames, email \in Emails, password \in Passwords :
          AddUser(name, email, password) /\ UNCHANGED dpVars
    \/ \E name \in UserNames, email \in Emails, password \in Passwords,
          at \in AddUserCalls :
          AddUserRaises(name, email, password, at) /\ UNCHANGED dpVars
    \/ \E user_id \in UserIds : RemoveUser(user_id) /\ UNCHANGED dpVars
    \/ \E user_id \in UserIds, at \in RemoveUserCalls :
          RemoveUserRaises(user_id, at) /\ UNCHANGED dpVars
    \/ \E email \in Emails : GetUserByEmail(email) /\ UNCHANGED dpVars
    \/ \E key \in DOMAIN cache : CacheExpire(key) /\ UNCHANGED dpVars

SpecRaises == Init /\ [][NextRaises]_vars

\* A fresh DataProcessor and the batch its caller holds.
DPInit ==
    /\ data \in Batches
    /\ processed_count = 0
    /\ now = 1
    /\ out = Out("init", <<>>, <<>>, <<>>, <<>>)

InitDP == DPInit /\ UMInit

NextDP == Process /\ UNCHANGED umVars

SpecDP == InitDP /\ [][NextDP]_vars

----------------------------------------------------------------------------
\* Vocabulary of the UserManager properties.

\* The accounts of a list, and whether one has a given email or id.
Accounts(us) == {us[i] : i \in 1..Len(us)}
HasEmail(us, email) == \E u \in Accounts(us) : u.email = email
HasId(us, id) == \E u \in Accounts(us) : u.id = id
\* The collaborator calls of the last handler.
Called(r, call) == \E i \in 1..Len(r.calls) : r.calls[i] = call
\* Every token create_session can mint.
AllTokens == {Uuid4Str(n) : n \in 1..(MaxTokens + 1)}

\* C1: in every reachable state no two accounts of the in-memory list have
\* the same email.
C1_EmailsUnique ==
    \A i, j \in 1..Len(users) : i # j => users[i].email # users[j].email

C1_Witness ==
    /\ Len(users) = 2
    /\ ret.op = "add_user"
    /\ ret.status = "ok"

\* C2: an add_user whose email equals, character for character, the email of
\* an account in the list fails with the duplicate-email error (ValueError)
\* and leaves the list as it was.
C2_DuplicateRejected ==
    [][ (ret'.op = "add_user" /\ HasEmail(users, ret'.email))
            => (ret'.status = "ValueError" /\ users' = users) ]_vars

C2_Witness ==
    /\ ret.op = "add_user"
    /\ ret.status = "ValueError"
    /\ HasEmail(users, ret.email)

C4_RemovedNotReturned ==
    [][ /\ ret'.op = "remove_user" => ~HasId(users', ret'.id)
        /\ (ret'.op = "get_user_by_email" /\ ret'.user # None)
            => ret'.user \in Accounts(users) ]_vars

C6_SessionsInvalidated ==
    [][ ret'.op = "remove_user" =>
          \A t \in AllTokens :
             SessionKey(t) \in DOMAIN cache'
                => cache'[SessionKey(t)].val # ret'.id ]_vars

C8_ReadThrough ==
    [][ ret'.op = "get_user_by_email" =>
          IF UserKey(ret'.email) \in DOMAIN cache
          THEN /\ ret'.user = cache[UserKey(ret'.email)].val
               /\ ~Called(ret', "db.query_user_by_email")
          ELSE /\ Called(ret', "db.query_user_by_email")
               /\ ret'.user \in query_user_by_email(db, ret'.email)
               /\ ret'.user # None
                    => /\ UserKey(ret'.email) \in DOMAIN cache'
                       /\ cache'[UserKey(ret'.email)].val = ret'.user
               /\ ret'.user = None => cache' = cache ]_vars

\* A miss that the database answered and that refilled the cache.
C8_Witness ==
    /\ ret.op = "get_user_by_email"
    /\ Called(ret, "db.query_user_by_email")
    /\ Called(ret, "cache.set")
    /\ UserKey(ret.email) \in DOMAIN cache
    /\ cache[UserKey(ret.email)].val = ret.user

----------------------------------------------------------------------------
\* Vocabulary of the DataProcessor properties.

\* n is s without its leading and trailing whitespace, in lower case.
IsTrimmedLower(s, n) ==
    \E i \in 1..(Len(s) + 1), j \in 0..Len(s) :
        /\ \A k \in 1..(i - 1) : IsSpace(s[k])
        /\ \A k \in (j + 1)..Len(s) : IsSpace(s[k])
        /\ \/ i > j /\ n = <<>>
           \/ /\ i <= j
              /\ ~IsSpace(s[i])
              /\ ~IsSpace(s[j])
              /\ Len(n) = j - i + 1
              /\ \A k \in 1..Len(n) : n[k] = LowerChar(s[i + k - 1])
\* The record is not the empty dict.
NonEmpty(record) == DOMAIN record # {}

\* C9: when process completes, the returned list is no longer than the
\* batch, and every returned record carries processed_at, normalized_name
\* (its name without surrounding whitespace, in lower case), enriched = true
\* and the metadata {source: "api", version: "1.0"}.
C9_OutputShape ==
    out.status = "ok" =>
        /\ Len(out.result) <= Len(data)
        /\ \A k \in 1..Len(out.result) :
             LET r == out.result[k]
             IN  /\ {"processed_at", "normalized_name", "enriched", "metadata"}
                        \subseteq DOMAIN r
                 /\ r["normalized_name"].t = "str"
                 /\ IsTrimmedLower(r["name"].v, r["normalized_name"].v)
                 /\ r["enriched"] = TRUE
                 /\ r["metadata"] = [source |-> "api", version |-> "1.0"]

\* A completed call that dropped a record and returned the "  Bob  " record
\* with normalized_name "bob".
C9_Witness ==
    /\ out.status = "ok"
    /\ Len(out.result) >= 1
    /\ Len(out.result) < Len(data)
    /\ out.result[1]["name"].v = <<" ", " ", "B", "o", "b", " ", " ">>
    /\ out.result[1]["normalized_name"].v = <<"b", "o", "b">>

\* C10: when clean_data returns, it has kept exactly the first record
\* bearing each id that occurs in the batch (one record per id), in input
\* order; later records of an id and empty records are dropped.
C10_CleanFirstWins ==
    out.status \in {"ok", "AttributeError"} =>
        /\ \A a, b \in 1..Len(out.cleaned) :
             a < b => out.cleaned[a] < out.cleaned[b]
        /\ \A i \in 1..Len(data) :
             (\E k \in 1..Len(out.cleaned) : out.cleaned[k] = i)
                <=> /\ "id" \in DOMAIN data[i]
                    /\ \A j \in 1..(i - 1) :
                         ~("id" \in DOMAIN data[j] /\ data[j]["id"] = data[i]["id"])
        /\ \A i \in 1..Len(data) :
             ~NonEmpty(data[i]) => \A k \in 1..Len(out.cleaned) : out.cleaned[k] # i

\* The batch [{}, {id: x, ...}, {id: x, ...}]: only the first record of id x
\* is kept.
C10_Witness ==
    /\ out.status = "ok"
    /\ Len(data) = 3
    /\ ~NonEmpty(data[1])
    /\ "id" \in DOMAIN data[2]
    /\ "id" \in DOMAIN data[3]
    /\ data[2]["id"] = data[3]["id"]
    /\ "email" \in DOMAIN data[3]
    /\ out.cleaned = <<2>>

\* C11: every completed process call increases processed_count by exactly
\* the number of records it returned, a failed call leaves it as it was, and
\* it never decreases; as it starts at 0, it is the sum of the output
\* lengths of the completed calls.
C11_CountIsSumOfOutputs ==
    [][ /\ out'.status = "ok"
            => processed_count' = processed_count + Len(out'.result)
        /\ out'.status # "ok" => processed_count' = processed_count
        /\ processed_count' >= processed_count ]_vars

\* The second completed call on a batch that yields one record.
C11_Witness ==
    /\ out.status = "ok"
    /\ Len(out.result) = 1
    /\ Len(out.cleaned) = 2
    /\ processed_count = 2

C13_ValidateKeepsComplete ==
    out.status = "ok" =>
        /\ out.refs = SelectSeq(out.cleaned,
                         LAMBDA p : {"id", "name", "email"} \subseteq DOMAIN data[p])
        /\ \A k \in 1..Len(out.result) :
             {"id", "name", "email"} \subseteq DOMAIN out.result[k]

\* validate dropped one of two records.
C13_Witness ==
    /\ out.status = "ok"
    /\ Len(out.cleaned) = 2
    /\ Len(out.refs) = 1
    /\ out.refs[1] = out.cleaned[2]

\* C14: a process call leaves the caller's batch and every record in it
\* unchanged.
C14_InputUnchanged ==
    [][ data' = data ]_vars

\* A call log is an initial part of the calls a handler makes, in order.
IsPrefix(calls, order) ==
    /\ Len(calls) <= Len(order)
    /\ \A i \in 1..Len(calls) : calls[i] = order[i]
\* The account add_user has just appended to the list.
Appended == users'[Len(users')]

\* C15: add_user appends to the in-memory list, then writes the cache, then
\* inserts into the database; remove_user reassigns the list, then deletes
\* from the cache, then deletes from the database.  A call that a
\* collaborator interrupts has done the steps before the raising one only.
C15_CacheBeforeDatabase ==
    [][ /\ (ret'.op = "add_user" /\ ret'.status # "ValueError") =>
             /\ Len(ret'.calls) >= 2
             /\ IsPrefix(ret'.calls,
                         <<"users.append", "cache.set", "db.insert_user">>)
             /\ Len(users') = Len(users) + 1
             /\ users' = Append(users, Appended)
             /\ Appended.email = ret'.email
             /\ (ret'.status = "CollaboratorError" /\ Len(ret'.calls) = 2) =>
                    cache' = cache /\ db' = db
             /\ (ret'.status = "CollaboratorError" /\ Len(ret'.calls) = 3) =>
                    /\ cache' = CacheSet(cache, UserKey(ret'.email), Appended,
                                         session_timeout)
                    /\ db' = db
             /\ db' # db =>
                    /\ UserKey(ret'.email) \in DOMAIN cache'
                    /\ cache'[UserKey(ret'.email)].val = Appended
        /\ ret'.op = "remove_user" =>
             /\ Len(ret'.calls) >= 2
             /\ IsPrefix(ret'.calls,
                         <<"users.assign", "cache.delete", "db.delete_user">>)
             /\ users' = SelectSeq(users, LAMBDA u : u.id # ret'.id)
             /\ (ret'.status = "CollaboratorError" /\ Len(ret'.calls) = 2) =>
                    cache' = cache /\ db' = db
             /\ (ret'.status = "CollaboratorError" /\ Len(ret'.calls) = 3) =>
                    /\ cache' = CacheDelete(cache, UserSessionsKey(ret'.id))
                    /\ db' = db
             /\ db' # db => UserSessionsKey(ret'.id) \notin DOMAIN cache'
      ]_vars

\* add_user was interrupted between its cache write and its database insert.
C15_Witness ==
    /\ ret.op = "add_user"
    /\ ret.status = "CollaboratorError"
    /\ Len(ret.calls) = 3
    /\ UserKey(ret.email) \in DOMAIN cache
    /\ cache[UserKey(ret.email)].val.id = ret.id
    /\ HasId(users, ret.id)
    /\ \A u \in db : u.id # ret.id

\* The session entries of a cache.
SessionKeys(c) == {k \in DOMAIN c : \E t \in AllTokens : k = SessionKey(t)}
\* The tokens create_session has minted so far.
MintedTokens == {Uuid4Str(n) : n \in 1..(nextToken - 1)}

\* C16: a successful authenticate adds exactly one session entry to the
\* cache, under the returned token, holding the id of the account looked up
\* and the session timeout; the token was never minted before.  A failed
\* authenticate leaves the session entries as they were.
C16_OneSessionPerSuccess ==
    [][ ret'.op = "authenticate" =>
          IF ret'.success
          THEN /\ ret'.token \in AllTokens
               /\ ret'.token \notin MintedTokens
               /\ SessionKey(ret'.token) \notin DOMAIN cache
               /\ SessionKeys(cache') =
                    SessionKeys(cache) \cup {SessionKey(ret'.token)}
               /\ cache'[SessionKey(ret'.token)] =
                    [val |-> ret'.user.id, ex |-> session_timeout]
               /\ \A k \in SessionKeys(cache) : cache'[k] = cache[k]
          ELSE /\ ret'.token = NoToken
               /\ SessionKeys(cache') = SessionKeys(cache)
               /\ \A k \in SessionKeys(cache) : cache'[k] = cache[k]
      ]_vars

\* A second successful authenticate, its session stored.
C16_Witness ==
    /\ ret.op = "authenticate"
    /\ ret.success
    /\ nextToken = 3
    /\ SessionKey(ret.token) \in DOMAIN cache
    /\ cache[SessionKey(ret.token)].val = ret.user.id

\* C17: with collaborators that never raise, the accounts of the in-memory
\* list are the accounts the database holds.
C17_ListEqualsDatabase ==
    Accounts(users) = db

\* One account added and removed again, another still held.
C17_Witness ==
    /\ ret.op = "remove_user"
    /\ Len(users) = 1
    /\ nextId = 3
    /\ db # {}

\* C18: an add_user interrupted by a raising cache write or database insert
\* returns nothing, leaves the new account in the in-memory list and nothing
\* in the database; an add_user with the email of a listed account that the
\* database does not hold raises the duplicate-email error and changes
\* nothing.
C18_NoRollBack ==
    [][ /\ (ret'.op = "add_user" /\ ret'.status = "CollaboratorError") =>
             /\ ret'.user = None
             /\ Len(users') = Len(users) + 1
             /\ users' = Append(users, Appended)
             /\ Appended.email = ret'.email
             /\ Appended.id = ret'.id
             /\ db' = db
             /\ \A u \in db' : u.id # ret'.id
        /\ (/\ ret'.op = "add_user"
            /\ HasEmail(users, ret'.email)
            /\ \A u \in db : u.email # ret'.email) =>
             /\ ret'.status = "ValueError"
             /\ ret'.user = None
             /\ users' = users
             /\ db' = db
             /\ cache' = cache
      ]_vars

\* The duplicate-email error for an account the database never received.
C18_Witness ==
    /\ ret.op = "add_user"
    /\ ret.status = "ValueError"
    /\ HasEmail(users, ret.email)
    /\ \A u \in db : u.email # ret.email

\* The record at position i of the batch is non-empty and has no id field.
WithoutId(i) == NonEmpty(data[i]) /\ "id" \notin DOMAIN data[i]
\* The record at position i is the first of the batch bearing its id.
FirstOfItsId(i) ==
    /\ "id" \in DOMAIN data[i]
    /\ \A j \in 1..(i - 1) :
         ~("id" \in DOMAIN data[j] /\ data[j]["id"] = data[i]["id"])
\* A record before position i has the id None.
NoneIdBefore(i) ==
    \E j \in 1..(i - 1) : "id" \in DOMAIN data[j] /\ data[j]["id"] = NoneId

\* C19 as stated: process on any batch that contains a non-empty record
\* without id fails in clean_data and returns no records.
C19_WithoutIdAlwaysRaises ==
    (out.status # "init" /\ \E i \in 1..Len(data) : WithoutId(i))
        => (out.status = "KeyError" /\ out.result = <<>>)

\* C19, amended: clean_data raises exactly when the batch holds a non-empty
\* record without id that no record with id None precedes; process then
\* fails as a whole and returns no records, whatever else the batch holds.
\* After a record with id None, a record without id is dropped silently.
C19_WithoutIdRaisesUnlessNoneSeen ==
    out.status # "init" =>
        /\ (\E i \in 1..Len(data) : WithoutId(i) /\ ~NoneIdBefore(i))
              <=> out.status = "KeyError"
        /\ out.status = "KeyError" => out.result = <<>> /\ processed_count = 0

\* process failed in clean_data on a batch that also holds a valid record.
C19_Witness ==
    /\ out.status = "KeyError"
    /\ Len(data) = 2
    /\ is_valid_record(data[1])
    /\ WithoutId(2)

\* C20: a completed process call returns exactly the records that are the
\* first of the batch bearing their id and contain name and email: an id is
\* in the output iff the first record bearing it contains name and email, a
\* later record of that id is never returned, and the returned ids are
\* pairwise distinct and in input order.
C20_DedupBeforeValidate ==
    out.status = "ok" =>
        /\ \A i \in 1..Len(data) :
             (\E k \in 1..Len(out.refs) : out.refs[k] = i)
                <=> (FirstOfItsId(i) /\ {"name", "email"} \subseteq DOMAIN data[i])
        /\ \A i \in 1..Len(data) :
             FirstOfItsId(i) =>
                ((\E k \in 1..Len(out.result) : out.result[k]["id"] = data[i]["id"])
                    <=> {"name", "email"} \subseteq DOMAIN data[i])
        /\ \A a, b \in 1..Len(out.result) :
             a < b => /\ out.result[a]["id"] # out.result[b]["id"]
                      /\ out.refs[a] < out.refs[b]

\* The first record of an id lacks email and the second one of the same id
\* is valid: nothing is returned.
C20_Witness ==
    /\ out.status = "ok"
    /\ Len(data) = 2
    /\ FirstOfItsId(1)
    /\ "email" \notin DOMAIN data[1]
    /\ is_valid_record(data[2])
    /\ data[2]["id"] = data[1]["id"]
    /\ out.result = <<>>

====
